---------------------------- MODULE Spec2Model ----------------------------
(***************************************************************************)
(* CWAS categorization core: the five per-domain classifiers of            *)
(* cwas/core/categorization/categorizer.py, the combinator (itertools      *)
(* product over the five term lists), the two aggregators                  *)
(* (categorize_variant, get_intersection) and the default domains and      *)
(* redundant pairs of cwas/core/configuration/settings.py.                 *)
(*                                                                         *)
(* Annotation integers are natural numbers built by integer addition of    *)
(* powers of two, exactly as the code builds them, so that a weight that   *)
(* is added twice or scaled carries into a neighbouring bit.               *)
(***************************************************************************)
EXTENDS Integers, Sequences, FiniteSets, TLC

VARIABLES
    category_domain,   \* Categorizer._category_domain: domain name -> term list
    gene_matrix,       \* Categorizer._gene_matrix: gene symbol -> set of gene lists
    annotated_vcf,     \* the variant table handed to the aggregators
    cnt,               \* one call of categorize_variant: [pc, i, result]
    isect,             \* one call of get_intersection: [pc, i, result]
    cv,                \* the row of a one-row table given to the classifiers
    cout,              \* what became of cv: [pc, ints, lists, combinations]
    columns,           \* the indicator columns the variant table has
    settings,          \* settings.py: _default_domains, _redundant_domain_pairs
    handed,            \* the value a getter of settings.py returned last
    par,               \* workers that aggregate row ranges of the table
    dawn               \* one use of the cluster-pair block index of supernodeWGS

vars ==
    <<category_domain, gene_matrix, annotated_vcf, cnt, isect, cv, cout,
      columns, settings, handed, par, dawn>>

-----------------------------------------------------------------------------
(* Bounds of the model. *)

\* Longest variant table that is aggregated.
MaxRows == 2

\* Largest value of a conservation / region indicator column.
MaxInd == 2

-----------------------------------------------------------------------------
(* settings.py *)

DomainTypes == <<"variant_type", "conservation", "gene_list", "gencode", "region">>

\* The built-in domains; conservation, gene_list and region hold the
\* catch-all term only.
DefaultDomains ==
    [variant_type |-> <<"All", "SNV", "Indel">>,
     conservation |-> <<"All">>,
     gene_list    |-> <<"Any">>,
     gencode      |-> <<"Any", "CodingRegion", "FrameshiftRegion", "InFrameRegion",
                        "SilentRegion", "LoFRegion", "DamagingMissenseRegion",
                        "MissenseRegion", "NoncodingRegion",
                        "SpliceSiteNoncanonRegion", "IntronRegion", "PromoterRegion",
                        "IntergenicRegion", "UTRsRegion", "lincRnaRegion",
                        "OtherTranscriptRegion">>,
     region       |-> <<"Any">>]

\* Redundant (variant_type, gencode) term pairs.
RedundantVariantTypeGencode ==
    { <<"All", "FrameshiftRegion">>, <<"All", "InFrameRegion">>,
      <<"All", "DamagingMissenseRegion">>, <<"All", "MissenseRegion">>,
      <<"All", "SilentRegion">>, <<"Indel", "DamagingMissenseRegion">>,
      <<"Indel", "MissenseRegion">>, <<"Indel", "SilentRegion">>,
      <<"SNV", "FrameshiftRegion">>, <<"SNV", "InFrameRegion">> }

\* Redundant (gene_list, gencode) term pairs.
RedundantGeneListGencode ==
    { <<"Any", "CodingRegion">>, <<"Any", "FrameshiftRegion">>,
      <<"Any", "InFrameRegion">>, <<"Any", "LoFRegion">>,
      <<"Any", "DamagingMissenseRegion">>, <<"Any", "MissenseRegion">>,
      <<"Any", "SilentRegion">>, <<"Any", "lincRnaRegion">>,
      <<"lincRNA", "Any">> }

\* The domains of a configured run: the defaults, with conservation, gene_list
\* and region extended by externally supplied term names.
ExtendedDomains ==
    [DefaultDomains EXCEPT
        !.conservation = <<"All", "phyloP46way", "phastCons46way">>,
        !.gene_list    = <<"Any", "ProteinCoding", "lincRNA">>,
        !.region       = <<"Any", "ChmE1">>]

-----------------------------------------------------------------------------
(* cwas/core/categorization/utils.py: the term <-> bit helpers. *)

RECURSIVE Pow2(_)
\* 2 ** n
Pow2(n) == IF n = 0 THEN 1 ELSE 2 * Pow2(n - 1)

\* Bit i of the natural number n.
Bit(n, i) == (n \div Pow2(i)) % 2

\* get_idx_dict: term -> position in the domain's list, counted from 0.
get_idx_dict(list) ==
    [t \in {list[i] : i \in 1..Len(list)} |->
        (CHOOSE i \in 1..Len(list) : list[i] = t) - 1]

RECURSIVE extract_from(_, _, _)
extract_from(list, n, i) ==
    IF i > Len(list) THEN <<>>
    ELSE (IF Bit(n, i - 1) = 1 THEN <<list[i]>> ELSE <<>>)
             \o extract_from(list, n, i + 1)

\* extract_sublist_by_int: the terms of the list whose bit is set in n, in
\* list order.
extract_sublist_by_int(list, n) == extract_from(list, n, 1)

-----------------------------------------------------------------------------
(* Python built-ins the classifiers use. *)

\* needle in haystack, for two strings.
IsSubstring(needle, haystack) ==
    \E i \in 1..(Len(haystack) - Len(needle) + 1) :
        SubSeq(haystack, i, i + Len(needle) - 1) = needle

Digits == <<"0", "1", "2", "3", "4", "5", "6", "7", "8", "9">>

IsDigit(c) == \E d \in 1..10 : Digits[d] = c

DigitVal(c) == (CHOOSE d \in 1..10 : Digits[d] = c) - 1

\* Position of the first "." of s, or 0.
DotPos(s) ==
    IF \E i \in 1..Len(s) : SubSeq(s, i, i) = "."
    THEN CHOOSE i \in 1..Len(s) :
            /\ SubSeq(s, i, i) = "."
            /\ \A j \in 1..(i - 1) : SubSeq(s, j, j) # "."
    ELSE 0

\* float(s) succeeds, for a string s without sign, exponent or blanks: s is a
\* decimal numeral, digits with at most one "." and at least one digit.
\* float(s) raises ValueError otherwise.
FloatParses(s) ==
    /\ Len(s) > 0
    /\ \A i \in 1..Len(s) : IsDigit(SubSeq(s, i, i)) \/ i = DotPos(s)
    /\ \E i \in 1..Len(s) : IsDigit(SubSeq(s, i, i))

RECURSIVE DigitsValue(_)
\* The number a string of digits denotes ("" denotes 0).
DigitsValue(s) ==
    IF Len(s) = 0 THEN 0
    ELSE 10 * DigitsValue(SubSeq(s, 1, Len(s) - 1)) + DigitVal(SubSeq(s, Len(s), Len(s)))

\* float(s) >= n for a numeral s with a non-negative value and a natural n:
\* decided by the integer part.
FloatGE(s, n) ==
    LET d == DotPos(s)
        intpart == IF d = 0 THEN s ELSE SubSeq(s, 1, d - 1)
    IN  DigitsValue(intpart) >= n

RECURSIVE join(_, _)
\* sep.join(seq)
join(sep, seq) ==
    IF Len(seq) = 0 THEN ""
    ELSE IF Len(seq) = 1 THEN seq[1]
    ELSE seq[1] \o sep \o join(sep, Tail(seq))

RECURSIVE product_from(_, _, _)
\* The tuples of product(lists) whose first element is lists[1][i] or a later
\* one; rest is the product of the remaining lists.
product_from(first, rest, i) ==
    IF i > Len(first) THEN <<>>
    ELSE [k \in 1..Len(rest) |-> <<first[i]>> \o rest[k]]
             \o product_from(first, rest, i + 1)

RECURSIVE product_zip(_)
\* product as zip(*lists) would be: the k-th elements of the lists together.
product_zip(lists) ==
    IF Len(lists) = 0 THEN << <<>> >>
    ELSE LET rest == product_zip(Tail(lists))
             n == IF Len(lists[1]) < Len(rest) THEN Len(lists[1]) ELSE Len(rest)
         IN  [k \in 1..n |-> <<lists[1][k]>> \o rest[k]]

RECURSIVE product(_)
\* itertools.product(*lists): every tuple that takes one element of each list,
\* the last list varying fastest.
product(lists) ==
    IF Len(lists) = 0 THEN << <<>> >>
    ELSE product_from(lists[1], product(Tail(lists)), 1)

-----------------------------------------------------------------------------
(* The inputs: consequence strings, genes, variant rows. *)

\* Consequence terms of the effect predictor.
Tokens ==
    << "stop_gained", "splice_donor_variant", "splice_acceptor_variant",
       "frameshift_variant", "missense_variant", "protein_altering_variant",
       "start_lost", "stop_lost", "inframe_deletion", "inframe_insertion",
       "synonymous_variant", "stop_retained_variant",
       "incomplete_terminal_codon_variant", "coding_sequence_variant",
       "5_prime_UTR_variant", "upstream_gene_variant", "intron_variant",
       "splice_region_variant", "downstream_gene_variant", "intergenic_variant",
       "non_coding_transcript_exon_variant" >>

\* A Consequence field: one term, or two different terms joined by "&".
Consequences ==
    { Tokens[i] : i \in 1..Len(Tokens) }
        \cup { join("&", <<Tokens[p[1]], Tokens[p[2]]>>) :
                 p \in { q \in (1..Len(Tokens)) \X (1..Len(Tokens)) : q[1] < q[2] } }

\* The substrings the classifiers look for in a Consequence field.
Keywords ==
    { "downstream_gene_variant", "intergenic_variant", "stop_gained",
      "splice_donor", "splice_acceptor", "frameshift_variant",
      "missense_variant", "protein_altering_variant", "start_lost", "stop_lost",
      "inframe_deletion", "inframe_insertion", "synonymous_variant",
      "stop_retained_variant", "incomplete_terminal_codon_variant",
      "coding_sequence_variant", "_UTR_", "upstream_gene_variant",
      "intron_variant", "splice_region_variant" }

\* The keywords each consequence string contains, tabulated once.
KeywordsIn ==
    [s \in Consequences |-> {k \in Keywords : IsSubstring(k, s)}] @@ <<>>

\* keyword in gencode
In(keyword, gencode) ==
    IF gencode \in DOMAIN KeywordsIn /\ keyword \in Keywords
    THEN keyword \in KeywordsIn[gencode]
    ELSE IsSubstring(keyword, gencode)

\* Gene symbols of the rows.  RP11 has no entry in the gene matrix.
Genes == {"BRCA1", "LINC01", "MIR1", "GENEX", "RP11"}

\* The gene matrix of a run: BRCA1 is protein-coding, LINC01 a lincRNA, MIR1
\* is listed with no membership, and GENEX is listed under the gene lists
\* "Any" and "ProteinCoding".
GeneMatrix ==
    [g \in {"BRCA1", "LINC01", "MIR1", "GENEX"} |->
        CASE g = "BRCA1"  -> {"ProteinCoding"}
          [] g = "LINC01" -> {"lincRNA"}
          [] g = "MIR1"   -> {}
          [] g = "GENEX"  -> {"Any", "ProteinCoding"}]

LoFs == {"HC", "LC"}

LoFFlags == {"", "SINGLE_EXON", "NAGNAG_SITE"}

MPCs == {"", "NA", "2.5", "1.9", "2", "high"}

\* One row of the annotated variant table.  ind gives the indicator columns
\* of the conservation and region terms.
Row(ref, alt, symbol, nearest, csq, lof, flag, mpc, ind) ==
    [REF |-> ref, ALT |-> alt, SYMBOL |-> symbol, NEAREST |-> nearest,
     Consequence |-> csq, LoF |-> lof, LoF_flags |-> flag, MPC |-> mpc,
     ind |-> ind]

\* Indicator columns: one per non-catch-all conservation and region term.
Ind(phylop, phast, chm) ==
    [c \in {"phyloP46way", "phastCons46way", "ChmE1"} |->
        CASE c = "phyloP46way"    -> phylop
          [] c = "phastCons46way" -> phast
          [] c = "ChmE1"          -> chm]

Indicators == { Ind(a, b, c) : a \in 0..MaxInd, b \in 0..MaxInd, c \in 0..MaxInd }

\* The rows given to the classifiers one at a time: every consequence with
\* every gene and loss-of-function evidence, every consequence with every gene
\* and deleteriousness score, and every allele shape with every indicator.
ClassifyVariant(v) ==
    \/ \E g \in Genes, n \in {"BRCA1", "LINC01", "RP11"}, c \in Consequences,
          l \in LoFs, f \in LoFFlags :
          v = Row("A", "T", g, n, c, l, f, "", Ind(0, 0, 0))
    \/ \E g \in Genes, n \in {"BRCA1", "LINC01", "RP11"}, c \in Consequences,
          m \in MPCs :
          v = Row("A", "T", g, n, c, "LC", "", m, Ind(0, 0, 0))
    \/ \E r \in {"A", "AT"}, a \in {"T", "TG"}, g \in {"BRCA1", "RP11"},
          i \in Indicators :
          v = Row(r, a, g, "BRCA1", "intron_variant", "", "", "", i)

-----------------------------------------------------------------------------
(* categorizer.py: the five classifiers, for one row v of the table. *)

\* 2 ** idx[term] for a term of the named domain.
Weight(domain, term) == Pow2(get_idx_dict(category_domain[domain])[term])

\* self._gene_matrix.get(gene, set())
gene_matrix_get(gene) ==
    IF gene \in DOMAIN gene_matrix THEN gene_matrix[gene] ELSE {}

\* The gene a row is attributed to: the nearest gene for a downstream or
\* intergenic consequence, the row's own gene otherwise.
resolved_gene(v) ==
    IF In("downstream_gene_variant", v.Consequence)
          \/ In("intergenic_variant", v.Consequence)
    THEN v.NEAREST
    ELSE v.SYMBOL

\* annotate_variant_type with the length of ALT left unread.
annotate_variant_type_ref_only(v) ==
    (IF Len(v.REF) = 1 THEN Weight("variant_type", "SNV")
                       ELSE Weight("variant_type", "Indel"))
        + Weight("variant_type", "All")

annotate_variant_type(v) ==
    LET is_snv == Len(v.REF) = 1 /\ Len(v.ALT) = 1
    IN  (IF is_snv THEN Weight("variant_type", "SNV")
                   ELSE Weight("variant_type", "Indel"))
            + Weight("variant_type", "All")

RECURSIVE indicator_sum(_, _, _, _)
\* The loop of annotate_conservation and annotate_region over the terms of a
\* domain from position i on: every term but the catch-all adds its weight
\* times the value of its indicator column.
indicator_sum(domain, catchall, v, i) ==
    LET terms == category_domain[domain]
    IN  IF i > Len(terms) THEN 0
        ELSE (IF terms[i] = catchall THEN 0
              ELSE Weight(domain, terms[i]) * v.ind[terms[i]])
                 + indicator_sum(domain, catchall, v, i + 1)

annotate_conservation(v) ==
    indicator_sum("conservation", "All", v, 1) + Weight("conservation", "All")

RECURSIVE gene_list_sum(_, _)
\* The loop of annotate_gene_list over the gene_list terms from position i on:
\* every term found in the gene's set adds its weight.
gene_list_sum(gene_list_set, i) ==
    LET terms == category_domain["gene_list"]
    IN  IF i > Len(terms) THEN 0
        ELSE (IF terms[i] \in gene_list_set
              THEN Weight("gene_list", terms[i]) ELSE 0)
                 + gene_list_sum(gene_list_set, i + 1)

\* annotation_int_dict = {}
EmptyDict == [gene \in {} |-> 0]

\* gene_list_step with the integer of every gene kept in annotation_int_dict
\* and the gene's weights added to what was kept.
gene_list_step_memo(annotation_int_dict, v) ==
    LET gene == resolved_gene(v)
        kept == IF gene \in DOMAIN annotation_int_dict
                THEN annotation_int_dict[gene] ELSE 0
        gene_list_set == gene_matrix_get(gene)
        annotation_int ==
            kept + (IF gene_list_set # {} THEN gene_list_sum(gene_list_set, 1) ELSE 0)
    IN  [annotation_int |-> annotation_int,
         annotation_int_dict |->
             [g \in DOMAIN annotation_int_dict \cup {gene} |->
                 IF g = gene THEN annotation_int ELSE annotation_int_dict[g]]]

\* One pass of the loop of annotate_gene_list over the rows: the integer
\* appended for the row, and annotation_int_dict after the pass.  The
\* dictionary is read with get(gene, 0) and never written.
gene_list_step(annotation_int_dict, v) ==
    LET gene == resolved_gene(v)
        kept == IF gene \in DOMAIN annotation_int_dict
                THEN annotation_int_dict[gene] ELSE 0
        gene_list_set == gene_matrix_get(gene)
        annotation_int ==
            IF kept = 0 /\ gene_list_set # {} THEN gene_list_sum(gene_list_set, 1)
            ELSE kept
    IN  [annotation_int |-> annotation_int,
         annotation_int_dict |-> annotation_int_dict]

RECURSIVE gene_list_loop(_, _, _, _)
\* The loop of annotate_gene_list from row i on.
gene_list_loop(table, i, annotation_int_dict, annotation_int_list) ==
    IF i > Len(table) THEN annotation_int_list
    ELSE LET step == gene_list_step(annotation_int_dict, table[i])
         IN  gene_list_loop(table, i + 1, step.annotation_int_dict,
                            Append(annotation_int_list, step.annotation_int))

\* What annotate_gene_list returns for a table: one integer per row.
gene_list_annotation_ints(table) ==
    LET annotation_int_list == gene_list_loop(table, 1, EmptyDict, <<>>)
    IN  [k \in 1..Len(table) |->
            annotation_int_list[k] + Weight("gene_list", "Any")]

\* annotate_gene_list on the table of the one row v.
annotate_gene_list(v) == gene_list_annotation_ints(<<v>>)[1]

\* lof_evidence with the flag left unread.
lof_evidence_no_flag(v) == v.LoF = "HC"

\* (lof == "HC") and ((lof_flag == 'SINGLE_EXON') or (lof_flag == ""))
lof_evidence(v) ==
    v.LoF = "HC" /\ (v.LoF_flags = "SINGLE_EXON" \/ v.LoF_flags = "")

\* is_lof giving way to the frameshift rule when both match.
is_lof_after_frameshift(v) ==
    /\ \/ In("stop_gained", v.Consequence)
       \/ In("splice_donor", v.Consequence)
       \/ In("splice_acceptor", v.Consequence)
    /\ lof_evidence(v)
    /\ ~In("frameshift_variant", v.Consequence)

\* The conditions of the coding if / elif chain, in its order.
is_lof(v) ==
    /\ \/ In("stop_gained", v.Consequence)
       \/ In("splice_donor", v.Consequence)
       \/ In("splice_acceptor", v.Consequence)
    /\ lof_evidence(v)

is_frameshift(v) == In("frameshift_variant", v.Consequence) /\ lof_evidence(v)

is_missense(v) ==
    \/ In("missense_variant", v.Consequence)
    \/ In("protein_altering_variant", v.Consequence)
    \/ In("start_lost", v.Consequence)
    \/ In("stop_lost", v.Consequence)

is_inframe(v) ==
    \/ In("inframe_deletion", v.Consequence)
    \/ In("inframe_insertion", v.Consequence)

is_silent(v) == In("synonymous_variant", v.Consequence)

\* is_reclassified with stop_gained left out of the keywords.
is_reclassified_no_stop_gained(v) ==
    /\ ~In("stop_retained_variant", v.Consequence)
    /\ ~In("incomplete_terminal_codon_variant", v.Consequence)
    /\ ~In("protein_altering_variant", v.Consequence)
    /\ ~In("coding_sequence_variant", v.Consequence)
    /\ ~In("splice_donor", v.Consequence)
    /\ ~In("splice_acceptor", v.Consequence)
    /\ ~In("frameshift_variant", v.Consequence)

\* The last elif: none of the keywords that keep a row coding.
is_reclassified(v) ==
    /\ ~In("stop_retained_variant", v.Consequence)
    /\ ~In("incomplete_terminal_codon_variant", v.Consequence)
    /\ ~In("protein_altering_variant", v.Consequence)
    /\ ~In("coding_sequence_variant", v.Consequence)
    /\ ~In("stop_gained", v.Consequence)
    /\ ~In("splice_donor", v.Consequence)
    /\ ~In("splice_acceptor", v.Consequence)
    /\ ~In("frameshift_variant", v.Consequence)

\* The missense branch is the one that reads the score.
reaches_mpc(v) ==
    /\ "ProteinCoding" \in gene_matrix_get(resolved_gene(v))
    /\ ~is_lof(v) /\ ~is_frameshift(v) /\ is_missense(v)

\* float(mpc) raises ValueError: the score is read, is neither empty nor
\* "NA", and is no numeral.
gencode_raises(v) ==
    reaches_mpc(v) /\ Len(v.MPC) # 0 /\ v.MPC # "NA" /\ ~FloatParses(v.MPC)

\* (len(mpc) != 0) and (mpc != 'NA') and (float(mpc) >= 2)
is_damaging(v) ==
    Len(v.MPC) # 0 /\ v.MPC # "NA" /\ FloatParses(v.MPC) /\ FloatGE(v.MPC, 2)

\* gencode_coding with the reclassification leaving annotation_int as it is.
gencode_coding_no_reset(v) ==
    LET W(t) == Weight("gencode", t)
        coding == W("CodingRegion")
    IN  IF "ProteinCoding" \notin gene_matrix_get(resolved_gene(v))
        THEN [annotation_int |-> 0, is_in_coding |-> FALSE]
        ELSE IF is_lof(v)
        THEN [annotation_int |-> coding + W("LoFRegion"), is_in_coding |-> TRUE]
        ELSE IF is_frameshift(v)
        THEN [annotation_int |-> coding + W("LoFRegion") + W("FrameshiftRegion"),
              is_in_coding |-> TRUE]
        ELSE IF is_missense(v)
        THEN [annotation_int |->
                 coding + W("MissenseRegion")
                    + (IF is_damaging(v) THEN W("DamagingMissenseRegion") ELSE 0),
              is_in_coding |-> TRUE]
        ELSE IF is_inframe(v)
        THEN [annotation_int |-> coding + W("InFrameRegion"), is_in_coding |-> TRUE]
        ELSE IF is_silent(v)
        THEN [annotation_int |-> coding + W("SilentRegion"), is_in_coding |-> TRUE]
        ELSE IF is_reclassified(v)
        THEN [annotation_int |-> coding, is_in_coding |-> FALSE]
        ELSE [annotation_int |-> coding, is_in_coding |-> TRUE]

\* The block under  if "ProteinCoding" in gene_list_set:  the annotation
\* integer and is_in_coding it leaves.
gencode_coding(v) ==
    LET W(t) == Weight("gencode", t)
        coding == W("CodingRegion")
    IN  IF "ProteinCoding" \notin gene_matrix_get(resolved_gene(v))
        THEN [annotation_int |-> 0, is_in_coding |-> FALSE]
        ELSE IF is_lof(v)
        THEN [annotation_int |-> coding + W("LoFRegion"), is_in_coding |-> TRUE]
        ELSE IF is_frameshift(v)
        THEN [annotation_int |-> coding + W("LoFRegion") + W("FrameshiftRegion"),
              is_in_coding |-> TRUE]
        ELSE IF is_missense(v)
        THEN [annotation_int |->
                 coding + W("MissenseRegion")
                    + (IF is_damaging(v) THEN W("DamagingMissenseRegion") ELSE 0),
              is_in_coding |-> TRUE]
        ELSE IF is_inframe(v)
        THEN [annotation_int |-> coding + W("InFrameRegion"), is_in_coding |-> TRUE]
        ELSE IF is_silent(v)
        THEN [annotation_int |-> coding + W("SilentRegion"), is_in_coding |-> TRUE]
        ELSE IF is_reclassified(v)
        THEN [annotation_int |-> 0, is_in_coding |-> FALSE]
        ELSE [annotation_int |-> coding, is_in_coding |-> TRUE]

\* gencode_noncoding with NoncodingRegion left out.
gencode_noncoding_without_parent(v) ==
    LET W(t) == Weight("gencode", t)
        gene_list_set == gene_matrix_get(resolved_gene(v))
    IN  IF In("_UTR_", v.Consequence) THEN W("UTRsRegion")
        ELSE IF In("upstream_gene_variant", v.Consequence) THEN W("PromoterRegion")
        ELSE IF In("intron_variant", v.Consequence) THEN W("IntronRegion")
        ELSE IF In("splice_region_variant", v.Consequence)
             THEN W("SpliceSiteNoncanonRegion")
        ELSE IF In("downstream_gene_variant", v.Consequence)
                   \/ In("intergenic_variant", v.Consequence)
             THEN W("IntergenicRegion")
        ELSE IF "ProteinCoding" \notin gene_list_set
             THEN (IF "lincRNA" \in gene_list_set THEN W("lincRnaRegion")
                   ELSE W("OtherTranscriptRegion"))
        ELSE 0

\* gencode_noncoding with the intron test before the UTR and upstream tests.
gencode_noncoding_intron_first(v) ==
    LET W(t) == Weight("gencode", t)
        gene_list_set == gene_matrix_get(resolved_gene(v))
    IN  W("NoncodingRegion")
        + (IF In("intron_variant", v.Consequence) THEN W("IntronRegion")
           ELSE IF In("_UTR_", v.Consequence) THEN W("UTRsRegion")
           ELSE IF In("upstream_gene_variant", v.Consequence) THEN W("PromoterRegion")
           ELSE IF In("splice_region_variant", v.Consequence)
                THEN W("SpliceSiteNoncanonRegion")
           ELSE IF In("downstream_gene_variant", v.Consequence)
                      \/ In("intergenic_variant", v.Consequence)
                THEN W("IntergenicRegion")
           ELSE IF "ProteinCoding" \notin gene_list_set
                THEN (IF "lincRNA" \in gene_list_set THEN W("lincRnaRegion")
                      ELSE W("OtherTranscriptRegion"))
           ELSE 0)

\* The block under  if not is_in_coding:  what it adds.
gencode_noncoding(v) ==
    LET W(t) == Weight("gencode", t)
        gene_list_set == gene_matrix_get(resolved_gene(v))
    IN  W("NoncodingRegion")
        + (IF In("_UTR_", v.Consequence) THEN W("UTRsRegion")
           ELSE IF In("upstream_gene_variant", v.Consequence) THEN W("PromoterRegion")
           ELSE IF In("intron_variant", v.Consequence) THEN W("IntronRegion")
           ELSE IF In("splice_region_variant", v.Consequence)
                THEN W("SpliceSiteNoncanonRegion")
           ELSE IF In("downstream_gene_variant", v.Consequence)
                      \/ In("intergenic_variant", v.Consequence)
                THEN W("IntergenicRegion")
           ELSE IF "ProteinCoding" \notin gene_list_set
                THEN (IF "lincRNA" \in gene_list_set THEN W("lincRnaRegion")
                      ELSE W("OtherTranscriptRegion"))
           ELSE 0)

\* The annotation integer of a row on which float(mpc) does not raise.
annotate_gencode(v) ==
    LET c == gencode_coding(v)
    IN  c.annotation_int
        + (IF ~c.is_in_coding THEN gencode_noncoding(v) ELSE 0)
        + Weight("gencode", "Any")

annotate_region(v) ==
    indicator_sum("region", "Any", v, 1) + Weight("region", "Any")

parse_annotation_int(annotation_int, annotation_term_type) ==
    extract_sublist_by_int(category_domain[annotation_term_type], annotation_int)

\* The five annotation integers of a row, by domain.
annotation_ints(v) ==
    [variant_type |-> annotate_variant_type(v),
     conservation |-> annotate_conservation(v),
     gene_list    |-> annotate_gene_list(v),
     gencode      |-> annotate_gencode(v),
     region       |-> annotate_region(v)]

\* What annotate_each_variant yields for a row: the five term lists, in the
\* order variant_type, gene_list, conservation, gencode, region.
annotation_term_lists(v) ==
    LET ints == annotation_ints(v)
    IN  << parse_annotation_int(ints.variant_type, "variant_type"),
           parse_annotation_int(ints.gene_list, "gene_list"),
           parse_annotation_int(ints.conservation, "conservation"),
           parse_annotation_int(ints.gencode, "gencode"),
           parse_annotation_int(ints.region, "region") >>

\* annotate_each_variant yielding the five lists in the order in which the
\* classifiers are run: variant_type, conservation, gene_list, gencode, region.
annotate_each_variant_run_order(table) ==
    LET gene_list_ints == gene_list_annotation_ints(table)
    IN  [k \in 1..Len(table) |->
            << parse_annotation_int(annotate_variant_type(table[k]), "variant_type"),
               parse_annotation_int(annotate_conservation(table[k]), "conservation"),
               parse_annotation_int(gene_list_ints[k], "gene_list"),
               parse_annotation_int(annotate_gencode(table[k]), "gencode"),
               parse_annotation_int(annotate_region(table[k]), "region") >>]

\* What annotate_each_variant yields for a table, row by row: the five
\* classifiers run over the whole table, then every row's five integers are
\* parsed.
annotate_each_variant(table) ==
    LET gene_list_ints == gene_list_annotation_ints(table)
    IN  [k \in 1..Len(table) |->
            << parse_annotation_int(annotate_variant_type(table[k]), "variant_type"),
               parse_annotation_int(gene_list_ints[k], "gene_list"),
               parse_annotation_int(annotate_conservation(table[k]), "conservation"),
               parse_annotation_int(annotate_gencode(table[k]), "gencode"),
               parse_annotation_int(annotate_region(table[k]), "region") >>]

-----------------------------------------------------------------------------
(* categorizer.py: the two aggregators. *)

\* defaultdict(int), empty.
EmptyCounts == [k \in {} |-> 0]

\* result[key] = 1 in the place of result[key] += 1
Increment_store_one(result, key) ==
    [k \in DOMAIN result \cup {key} |-> IF k = key THEN 1 ELSE result[k]]

\* result[key] += 1 on a defaultdict(int)
Increment(result, key) ==
    IF key \in DOMAIN result
    THEN [result EXCEPT ![key] = @ + 1]
    ELSE result @@ (key :> 1)

\* result[key][key2] += 1 on a defaultdict of defaultdict(int)
Increment2(result, key, key2) ==
    IF key \in DOMAIN result
    THEN [result EXCEPT ![key] = Increment(@, key2)]
    ELSE result @@ (key :> (key2 :> 1))

\* The Category keys of a row, one per combination, in the order product
\* generates them.
combination_keys(annotation_term_lists_) ==
    LET combinations == product(annotation_term_lists_)
    IN  [k \in 1..Len(combinations) |-> join("_", combinations[k])]

RECURSIVE count_keys(_, _, _)
\* The inner loop of categorize_variant from the i-th combination on.
\* (Each test of the key just counted makes TLC evaluate one pass of a loop
\* before it enters the next; it is true after every pass.)
count_keys(result, keys, i) ==
    IF i > Len(keys) THEN result
    ELSE LET after == Increment(result, keys[i])
         IN  IF keys[i] \in DOMAIN after
             THEN count_keys(after, keys, i + 1)
             ELSE after

\* categorize_lists with result created anew for every row.
categorize_lists_reset(result, annotation_term_lists_) ==
    count_keys(EmptyCounts, combination_keys(annotation_term_lists_), 1)

\* One pass of the outer loop of categorize_variant: the combinations of the
\* term lists the generator yielded are counted into result.
categorize_lists(result, annotation_term_lists_) ==
    count_keys(result, combination_keys(annotation_term_lists_), 1)

RECURSIVE categorize_from(_, _, _)
\* The outer loop of categorize_variant from the i-th yielded row on.
categorize_from(result, yields, i) ==
    IF i > Len(yields) THEN result
    ELSE categorize_from(categorize_lists(result, yields[i]), yields, i + 1)

\* What categorize_variant returns for a table none of whose rows raises.
categorize_variant(table) ==
    categorize_from(EmptyCounts, annotate_each_variant(table), 1)

RECURSIVE intersect_inner_no_self(_, _, _, _)
\* intersect_inner with the pair of a combination and itself left out.
intersect_inner_no_self(result, keys, i, j) ==
    IF j > Len(keys) THEN result
    ELSE LET after == IF i = j THEN result
                      ELSE Increment2(result, keys[i], keys[j])
         IN  IF i = j \/ keys[i] \in DOMAIN after
             THEN intersect_inner_no_self(after, keys, i, j + 1)
             ELSE after

RECURSIVE intersect_inner(_, _, _, _)
\* The inner loop of get_intersection for the i-th combination, from the j-th
\* second combination on.
intersect_inner(result, keys, i, j) ==
    IF j > Len(keys) THEN result
    ELSE LET after == Increment2(result, keys[i], keys[j])
         IN  IF keys[i] \in DOMAIN after
             THEN intersect_inner(after, keys, i, j + 1)
             ELSE after

RECURSIVE intersect_keys(_, _, _)
\* The two nested loops of get_intersection from the i-th combination on.
intersect_keys(result, keys, i) ==
    IF i > Len(keys) THEN result
    ELSE LET after == intersect_inner(result, keys, i, 1)
         IN  IF keys[i] \in DOMAIN after
             THEN intersect_keys(after, keys, i + 1)
             ELSE after

\* One pass of the outer loop of get_intersection: the pairs of combinations
\* of the term lists the generator yielded are counted into result.
intersect_lists(result, annotation_term_lists_) ==
    intersect_keys(result, combination_keys(annotation_term_lists_), 1)

RECURSIVE intersect_from(_, _, _)
\* The outer loop of get_intersection from the i-th yielded row on.
intersect_from(result, yields, i) ==
    IF i > Len(yields) THEN result
    ELSE intersect_from(intersect_lists(result, yields[i]), yields, i + 1)

\* What get_intersection returns for a table none of whose rows raises.
get_intersection(table) ==
    intersect_from(EmptyCounts, annotate_each_variant(table), 1)

\* The annotate_* calls that open annotate_each_variant run over the whole
\* table before the first row is yielded; float(mpc) of any row raises there.
table_raises(table) == \E i \in 1..Len(table) : gencode_raises(table[i])

\* The indicator columns the registry names: every conservation and region
\* term but the catch-alls.
indicator_terms ==
    { category_domain["conservation"][i] :
         i \in { j \in 1..Len(category_domain["conservation"]) :
                    category_domain["conservation"][j] # "All" } }
    \cup
    { category_domain["region"][i] :
         i \in { j \in 1..Len(category_domain["region"]) :
                    category_domain["region"][j] # "Any" } }

\* annotated_vcf[term] raises KeyError: the table has no such column.
missing_column(table_columns) == indicator_terms \ table_columns # {}

\* annotate_raises with a missing column met only when a row is read.
annotate_raises_no_key_error(table, table_columns) == table_raises(table)

\* One of the five annotate_* calls that open annotate_each_variant raises:
\* annotate_conservation or annotate_region on a missing column,
\* annotate_gencode on a score that is no numeral.
annotate_raises(table, table_columns) ==
    missing_column(table_columns) \/ table_raises(table)

\* dict.get with a default that is also stored under the key.
after_setdefault(d, key) ==
    IF key \in DOMAIN d THEN d ELSE [k \in DOMAIN d \cup {key} |->
                                        IF k = key THEN {} ELSE d[k]]

\* The dictionary after  d.get(key, set()) : get leaves it as it is.
after_get(d, key) == d

RECURSIVE after_lookups(_, _, _)
\* _gene_matrix after annotate_gene_list and annotate_gencode looked up the
\* gene of every row from row i on.
after_lookups(d, table, i) ==
    IF i > Len(table) THEN d
    ELSE after_lookups(after_get(d, resolved_gene(table[i])), table, i + 1)

-----------------------------------------------------------------------------
(* The tables that are aggregated. *)

TableVariants ==
    { \* SNV, damaging missense in a protein-coding gene
      Row("A", "T", "BRCA1", "LINC01", "missense_variant", "", "", "2.5", Ind(0, 0, 0)),
      \* Indel, high-confidence frameshift, in a custom region
      Row("AT", "A", "BRCA1", "LINC01", "frameshift_variant", "HC", "", "", Ind(0, 0, 1)),
      \* intron of a lincRNA
      Row("A", "T", "LINC01", "BRCA1", "intron_variant", "", "", "", Ind(0, 0, 0)),
      \* synonymous, gene listed under "Any"
      Row("A", "G", "GENEX", "BRCA1", "synonymous_variant", "", "", "NA", Ind(0, 0, 0)),
      \* intergenic, nearest gene unknown, conservation indicator 2
      Row("A", "T", "BRCA1", "RP11", "intergenic_variant", "", "", "", Ind(MaxInd, 0, 0)),
      \* missense with a score that is no number
      Row("A", "T", "BRCA1", "LINC01", "missense_variant", "", "", "high", Ind(0, 0, 0)),
      \* high-confidence frameshift whose two alleles are one character each:
      \* the deletion of G written with "-" for the allele that is left
      Row("G", "-", "BRCA1", "LINC01", "frameshift_variant", "HC", "", "", Ind(0, 0, 0)) }

RECURSIVE SeqsUpTo(_, _)
\* The sequences over S of length at most n.
SeqsUpTo(S, n) ==
    IF n = 0 THEN { <<>> }
    ELSE LET shorter == SeqsUpTo(S, n - 1)
         IN  shorter \cup { Append(t, x) : t \in shorter, x \in S }

Tables == SeqsUpTo(TableVariants, MaxRows)

-----------------------------------------------------------------------------
(* The aggregation of one table by categorize_variant and, independently, by *)
(* get_intersection.                                                         *)

NoRow == Row("", "", "", "", "", "", "", "", Ind(0, 0, 0))

\* The indicator columns of a table that has them all.
AllColumns == {"phyloP46way", "phastCons46way", "ChmE1"}

\* The indicator columns of the tables that are aggregated: all of them, or
\* all but a conservation column, or all but a region column.
ColumnSets ==
    { AllColumns, AllColumns \ {"phastCons46way"}, AllColumns \ {"ChmE1"} }

\* The module-level objects of settings.py after import.
ModuleSettings ==
    [default_domains |-> DefaultDomains,
     redundant_domain_pairs |->
        [variant_type_gencode |-> RedundantVariantTypeGencode,
         gene_list_gencode |-> RedundantGeneListGencode]]

\* No getter of settings.py was called yet.
NothingHanded ==
    [kind |-> "none", value |-> <<>>, shared |-> FALSE, fresh |-> FALSE,
     mutated_before |-> FALSE]

\* No worker was started.
NoWorkers ==
    [pc |-> "idle", cuts |-> <<0, 0>>, i |-> <<0, 0, 0>>,
     result |-> <<EmptyCounts, EmptyCounts, EmptyCounts>>,
     merged |-> {}, total |-> EmptyCounts]

\* No cluster pair is being indexed.
NoPair ==
    [pc |-> "idle", max_val |-> 0, idx1 |-> 0, idx2 |-> 0,
     index |-> [type |-> "int", value |-> 0], pair |-> <<0, 0>>]

NoInts ==
    [variant_type |-> 0, conservation |-> 0, gene_list |-> 0, gencode |-> 0,
     region |-> 0]

Init ==
    /\ category_domain = ExtendedDomains
    /\ gene_matrix = GeneMatrix
    /\ annotated_vcf \in Tables
    /\ columns \in ColumnSets
    /\ cnt = [pc |-> "start", i |-> 0, result |-> EmptyCounts, yields |-> <<>>]
    /\ isect = [pc |-> "start", i |-> 0, result |-> EmptyCounts, yields |-> <<>>]
    /\ cv = NoRow
    /\ cout = [pc |-> "idle", ints |-> NoInts, lists |-> <<>>, combinations |-> <<>>]
    /\ settings = ModuleSettings
    /\ handed = NothingHanded
    /\ par = NoWorkers
    /\ dawn = NoPair

\* categorize_variant asks the generator for its first row: the classifiers
\* run over the table.
CategorizeStart ==
    /\ cnt.pc = "start"
    /\ cnt' = IF annotate_raises(annotated_vcf, columns)
              THEN [cnt EXCEPT !.pc = "raised"]
              ELSE [cnt EXCEPT !.pc = "loop",
                               !.yields = annotate_each_variant(annotated_vcf)]
    /\ gene_matrix' = after_lookups(gene_matrix, annotated_vcf, 1)
    /\ UNCHANGED <<category_domain, annotated_vcf, isect, cv, cout,
                   columns, settings, handed, par, dawn>>

\* One row's combinations are counted.
CategorizeRow ==
    /\ cnt.pc = "loop"
    /\ cnt.i < Len(annotated_vcf)
    /\ cnt' = [cnt EXCEPT !.i = @ + 1,
                          !.result = categorize_lists(@, cnt.yields[cnt.i + 1])]
    /\ UNCHANGED <<category_domain, gene_matrix, annotated_vcf, isect, cv, cout,
                   columns, settings, handed, par, dawn>>

\* The generator is exhausted: result is returned.
CategorizeReturn ==
    /\ cnt.pc = "loop"
    /\ cnt.i = Len(annotated_vcf)
    /\ cnt' = [cnt EXCEPT !.pc = "done"]
    /\ UNCHANGED <<category_domain, gene_matrix, annotated_vcf, isect, cv, cout,
                   columns, settings, handed, par, dawn>>

IntersectionStart ==
    /\ isect.pc = "start"
    /\ isect' = IF annotate_raises(annotated_vcf, columns)
                THEN [isect EXCEPT !.pc = "raised"]
                ELSE [isect EXCEPT !.pc = "loop",
                                   !.yields = annotate_each_variant(annotated_vcf)]
    /\ gene_matrix' = after_lookups(gene_matrix, annotated_vcf, 1)
    /\ UNCHANGED <<category_domain, annotated_vcf, cnt, cv, cout,
                   columns, settings, handed, par, dawn>>

IntersectionRow ==
    /\ isect.pc = "loop"
    /\ isect.i < Len(annotated_vcf)
    /\ isect' = [isect EXCEPT !.i = @ + 1,
                              !.result = intersect_lists(@, isect.yields[isect.i + 1])]
    /\ UNCHANGED <<category_domain, gene_matrix, annotated_vcf, cnt, cv, cout,
                   columns, settings, handed, par, dawn>>

IntersectionReturn ==
    /\ isect.pc = "loop"
    /\ isect.i = Len(annotated_vcf)
    /\ isect' = [isect EXCEPT !.pc = "done"]
    /\ UNCHANGED <<category_domain, gene_matrix, annotated_vcf, cnt, cv, cout,
                   columns, settings, handed, par, dawn>>

Next ==
    \/ CategorizeStart
    \/ CategorizeRow
    \/ CategorizeReturn
    \/ IntersectionStart
    \/ IntersectionRow
    \/ IntersectionReturn

Spec == Init /\ [][Next]_vars

-----------------------------------------------------------------------------
(* The classification of a single row by annotate_each_variant. *)

InitClassify ==
    /\ category_domain = ExtendedDomains
    /\ gene_matrix = GeneMatrix
    /\ annotated_vcf = <<>>
    /\ columns = AllColumns
    /\ cnt = [pc |-> "idle", i |-> 0, result |-> EmptyCounts, yields |-> <<>>]
    /\ isect = [pc |-> "idle", i |-> 0, result |-> EmptyCounts, yields |-> <<>>]
    /\ ClassifyVariant(cv)
    /\ cout = [pc |-> "start", ints |-> NoInts, lists |-> <<>>, combinations |-> <<>>]
    /\ settings = ModuleSettings
    /\ handed = NothingHanded
    /\ par = NoWorkers
    /\ dawn = NoPair

\* The five annotate_* calls on the row.
AnnotateRow ==
    /\ cout.pc = "start"
    /\ cout' = IF gencode_raises(cv)
               THEN [cout EXCEPT !.pc = "raised"]
               ELSE [cout EXCEPT !.pc = "annotated", !.ints = annotation_ints(cv)]
    /\ UNCHANGED <<category_domain, gene_matrix, annotated_vcf, cnt, isect, cv,
                   columns, settings, handed, par, dawn>>

\* The row's five term lists are yielded.
YieldRow ==
    /\ cout.pc = "annotated"
    /\ cout' = [cout EXCEPT
                  !.pc = "yielded",
                  !.lists = << parse_annotation_int(cout.ints.variant_type, "variant_type"),
                               parse_annotation_int(cout.ints.gene_list, "gene_list"),
                               parse_annotation_int(cout.ints.conservation, "conservation"),
                               parse_annotation_int(cout.ints.gencode, "gencode"),
                               parse_annotation_int(cout.ints.region, "region") >>]
    /\ UNCHANGED <<category_domain, gene_matrix, annotated_vcf, cnt, isect, cv,
                   columns, settings, handed, par, dawn>>

\* The consumer of the generator expands the row's term lists.
CombineRow ==
    /\ cout.pc = "yielded"
    /\ cout' = [cout EXCEPT !.pc = "combined", !.combinations = product(cout.lists)]
    /\ UNCHANGED <<category_domain, gene_matrix, annotated_vcf, cnt, isect, cv,
                   columns, settings, handed, par, dawn>>

NextClassify == AnnotateRow \/ YieldRow \/ CombineRow

SpecClassify == InitClassify /\ [][NextClassify]_vars

-----------------------------------------------------------------------------
(* The getters of settings.py and a caller that changes what it was handed, *)
(* next to the aggregation of a table.                                      *)

\* A getter that returns the module-level object itself.
no_copy(object) == [value |-> object, shared |-> TRUE]

\* deepcopy(object): an equal value that shares nothing with the object.
deepcopy(object) == [value |-> object, shared |-> FALSE]

\* What a caller does to a dictionary of domains it holds:
\* domains[domain].append(term).
DomainMutations ==
    { [domain |-> "region", term |-> "ChmE1"],
      [domain |-> "conservation", term |-> "phyloP46way"] }

mutate_domains(domains, m) ==
    [domains EXCEPT ![m.domain] = Append(@, m.term)]

\* What a caller does to a dictionary of redundant pairs it holds:
\* pairs[key].add(pair) or pairs[key].discard(pair).
PairMutations ==
    { [op |-> "add", key |-> "variant_type_gencode",
       pair |-> <<"Indel", "FrameshiftRegion">>],
      [op |-> "discard", key |-> "gene_list_gencode",
       pair |-> <<"lincRNA", "Any">>] }

mutate_pairs(pairs, m) ==
    [pairs EXCEPT ![m.key] = IF m.op = "add" THEN @ \cup {m.pair}
                             ELSE @ \ {m.pair}]

\* get_default_domains()
GetDefaultDomains ==
    /\ handed' = [kind |-> "domains", fresh |-> TRUE,
                  mutated_before |-> handed.mutated_before
                                        \/ (handed.kind # "none" /\ ~handed.fresh)]
                     @@ deepcopy(settings.default_domains)
    /\ UNCHANGED <<category_domain, gene_matrix, annotated_vcf, cnt, isect, cv,
                   cout, columns, settings, par, dawn>>

\* get_redundant_domain_pairs()
GetRedundantDomainPairs ==
    /\ handed' = [kind |-> "pairs", fresh |-> TRUE,
                  mutated_before |-> handed.mutated_before
                                        \/ (handed.kind # "none" /\ ~handed.fresh)]
                     @@ deepcopy(settings.redundant_domain_pairs)
    /\ UNCHANGED <<category_domain, gene_matrix, annotated_vcf, cnt, isect, cv,
                   cout, columns, settings, par, dawn>>

\* The caller appends a term to a domain of the dictionary it was handed; the
\* module-level dictionary changes with it when the two are one object.
MutateHandedDomains ==
    /\ handed.kind = "domains"
    /\ \E m \in DomainMutations :
          /\ \A i \in 1..Len(handed.value[m.domain]) :
                handed.value[m.domain][i] # m.term
          /\ handed' = [handed EXCEPT !.value = mutate_domains(@, m),
                                      !.fresh = FALSE]
          /\ settings' = IF handed.shared
                         THEN [settings EXCEPT
                                  !.default_domains = mutate_domains(@, m)]
                         ELSE settings
    /\ UNCHANGED <<category_domain, gene_matrix, annotated_vcf, cnt, isect, cv,
                   cout, columns, par, dawn>>

\* The caller adds a pair to, or discards a pair from, the dictionary of
\* redundant pairs it was handed.
MutateHandedPairs ==
    /\ handed.kind = "pairs"
    /\ \E m \in PairMutations :
          /\ mutate_pairs(handed.value, m) # handed.value
          /\ handed' = [handed EXCEPT !.value = mutate_pairs(@, m),
                                      !.fresh = FALSE]
          /\ settings' = IF handed.shared
                         THEN [settings EXCEPT
                                  !.redundant_domain_pairs = mutate_pairs(@, m)]
                         ELSE settings
    /\ UNCHANGED <<category_domain, gene_matrix, annotated_vcf, cnt, isect, cv,
                   cout, columns, par, dawn>>

NextFrame ==
    \/ CategorizeStart
    \/ CategorizeRow
    \/ CategorizeReturn
    \/ IntersectionStart
    \/ IntersectionRow
    \/ IntersectionReturn
    \/ GetDefaultDomains
    \/ GetRedundantDomainPairs
    \/ MutateHandedDomains
    \/ MutateHandedPairs

\* The rows of the tables aggregated next to the getters: those of
\* TableVariants that no classifier raises on, among them the row whose gene
\* has no entry in the gene matrix.
FrameVariants ==
    { v \in TableVariants :
         /\ ~gencode_raises(v)
         /\ \/ resolved_gene(v) \notin DOMAIN GeneMatrix
            \/ v.Consequence \in {"synonymous_variant", "intron_variant"} }

InitFrame ==
    /\ category_domain = ExtendedDomains
    /\ gene_matrix = GeneMatrix
    /\ annotated_vcf \in SeqsUpTo(FrameVariants, MaxRows)
    /\ columns = AllColumns
    /\ cnt = [pc |-> "start", i |-> 0, result |-> EmptyCounts, yields |-> <<>>]
    /\ isect = [pc |-> "start", i |-> 0, result |-> EmptyCounts, yields |-> <<>>]
    /\ cv = NoRow
    /\ cout = [pc |-> "idle", ints |-> NoInts, lists |-> <<>>, combinations |-> <<>>]
    /\ settings = ModuleSettings
    /\ handed = NothingHanded
    /\ par = NoWorkers
    /\ dawn = NoPair

SpecFrame == InitFrame /\ [][NextFrame]_vars

-----------------------------------------------------------------------------
(* Workers that each aggregate a row range of the table with              *)
(* categorize_variant, and the key-wise sum of their count maps.          *)

WorkerIds == {1, 2, 3}

\* The rows of the tables that are split: those of TableVariants that no
\* classifier raises on.
ParallelVariants == { v \in TableVariants : ~gencode_raises(v) }

\* The row range of worker w for the cuts <<a, b>>: rows 1..a, a+1..b and
\* b+1..Len(table).
worker_rows(table, cuts, w) ==
    IF w = 1 THEN SubSeq(table, 1, cuts[1])
    ELSE IF w = 2 THEN SubSeq(table, cuts[1] + 1, cuts[2])
    ELSE SubSeq(table, cuts[2] + 1, Len(table))

\* The key-wise sum of two count maps.
merge_counts(total, partial) ==
    [key \in DOMAIN total \cup DOMAIN partial |->
        (IF key \in DOMAIN total THEN total[key] ELSE 0)
           + (IF key \in DOMAIN partial THEN partial[key] ELSE 0)]

\* The table is cut into three row ranges, one per worker.
InitParallel ==
    /\ category_domain = ExtendedDomains
    /\ gene_matrix = GeneMatrix
    /\ annotated_vcf \in SeqsUpTo(ParallelVariants, MaxRows)
    /\ columns = AllColumns
    /\ cnt = [pc |-> "idle", i |-> 0, result |-> EmptyCounts, yields |-> <<>>]
    /\ isect = [pc |-> "idle", i |-> 0, result |-> EmptyCounts, yields |-> <<>>]
    /\ cv = NoRow
    /\ cout = [pc |-> "idle", ints |-> NoInts, lists |-> <<>>, combinations |-> <<>>]
    /\ settings = ModuleSettings
    /\ handed = NothingHanded
    /\ \E a \in 0..Len(annotated_vcf) : \E b \in a..Len(annotated_vcf) :
          par = [NoWorkers EXCEPT !.pc = "running", !.cuts = <<a, b>>]
    /\ dawn = NoPair

\* Worker w counts the next row of its range: one pass of the outer loop of
\* its own call of categorize_variant on the rows of the range.
WorkerRow(w) ==
    /\ par.pc = "running"
    /\ par.i[w] < Len(worker_rows(annotated_vcf, par.cuts, w))
    /\ par' = [par EXCEPT
                 !.i[w] = @ + 1,
                 !.result[w] =
                    categorize_lists(
                       @, annotate_each_variant(
                             worker_rows(annotated_vcf, par.cuts, w))[par.i[w] + 1])]
    /\ UNCHANGED <<category_domain, gene_matrix, annotated_vcf, cnt, isect, cv,
                   cout, columns, settings, handed, dawn>>

\* The count map of a worker that has finished its range is added to the
\* total.
MergeWorker(w) ==
    /\ par.pc = "running"
    /\ w \notin par.merged
    /\ par.i[w] = Len(worker_rows(annotated_vcf, par.cuts, w))
    /\ par' = [par EXCEPT !.total = merge_counts(@, par.result[w]),
                          !.merged = @ \cup {w}]
    /\ UNCHANGED <<category_domain, gene_matrix, annotated_vcf, cnt, isect, cv,
                   cout, columns, settings, handed, dawn>>

NextParallel ==
    \/ \E w \in WorkerIds : WorkerRow(w)
    \/ \E w \in WorkerIds : MergeWorker(w)

SpecParallel == InitParallel /\ [][NextParallel]_vars

-----------------------------------------------------------------------------
(* The construction of a Categorizer. *)

\* The bits of an annotation integer: the classifiers accumulate in numpy
\* arrays of dtype int.
AnnotationIntBits == 64

\* Most terms of a region domain that a Categorizer is constructed with.
MaxTerms == 66

\* The decimal numeral of a natural number below 100.
numeral(n) ==
    IF n < 10 THEN Digits[n + 1]
    ELSE Digits[(n \div 10) + 1] \o Digits[(n % 10) + 1]

\* A region domain of n terms: the catch-all and n - 1 custom regions.
RegionDomain(n) ==
    [i \in 1..n |-> IF i = 1 THEN "Any" ELSE "region" \o numeral(i - 1)]

\* The registries a Categorizer is constructed with: the extended registry
\* with the first m conservation terms and a region domain of n terms.
CandidateDomains ==
    { [ExtendedDomains EXCEPT
          !["conservation"] = SubSeq(@, 1, m),
          !["region"] = RegionDomain(n)] :
      m \in 1..Len(ExtendedDomains["conservation"]), n \in 1..MaxTerms }

\* The gene matrices a Categorizer is constructed with.
CandidateGeneMatrices == { GeneMatrix, [gene \in {} |-> {}] }

\* No Categorizer exists yet.
InitConstruct ==
    /\ category_domain = <<>>
    /\ gene_matrix = <<>>
    /\ annotated_vcf = <<>>
    /\ columns = AllColumns
    /\ cnt = [pc |-> "idle", i |-> 0, result |-> EmptyCounts, yields |-> <<>>]
    /\ isect = [pc |-> "idle", i |-> 0, result |-> EmptyCounts, yields |-> <<>>]
    /\ cv = NoRow
    /\ cout = [pc |-> "idle", ints |-> NoInts, lists |-> <<>>, combinations |-> <<>>]
    /\ settings = ModuleSettings
    /\ handed = NothingHanded
    /\ par = NoWorkers
    /\ dawn = NoPair

\* Categorizer.__init__: the two arguments are stored; nothing is tested.
Construct ==
    /\ DOMAIN category_domain = {}
    /\ \E domains \in CandidateDomains, matrix \in CandidateGeneMatrices :
          /\ category_domain' = domains
          /\ gene_matrix' = matrix
    /\ UNCHANGED <<annotated_vcf, cnt, isect, cv, cout, columns, settings,
                   handed, par, dawn>>

NextConstruct == Construct

SpecConstruct == InitConstruct /\ [][NextConstruct]_vars

-----------------------------------------------------------------------------
(* Vocabulary of the properties. *)

\* The five term lists of the registry, in the order of a Category key.
domain_term_lists ==
    << category_domain["variant_type"], category_domain["gene_list"],
       category_domain["conservation"], category_domain["gencode"],
       category_domain["region"] >>

\* A combination (variant_type, gene_list, conservation, gencode, region term)
\* matches a listed redundant pair.
is_redundant(combination) ==
    \/ <<combination[1], combination[4]>> \in RedundantVariantTypeGencode
    \/ <<combination[2], combination[4]>> \in RedundantGeneListGencode

\* The keys of the combinations over the whole registry that are redundant.
RedundantKeys ==
    LET all == product(domain_term_lists)
    IN  { join("_", all[k]) : k \in { j \in 1..Len(all) : is_redundant(all[j]) } }

\* The keys of the combinations of a row that are not redundant.
ValidKeys(v) ==
    LET all == product(annotation_term_lists(v))
    IN  { join("_", all[k]) : k \in { j \in 1..Len(all) : ~is_redundant(all[j]) } }

\* result[key] of a defaultdict(int) that is only read.
Count(result, key) == IF key \in DOMAIN result THEN result[key] ELSE 0

\* result[key][key2] of a defaultdict of defaultdict(int) that is only read.
Count2(result, key, key2) ==
    IF key \in DOMAIN result THEN Count(result[key], key2) ELSE 0

\* The elements of a sequence.
Range(seq) == { seq[i] : i \in 1..Len(seq) }

RECURSIVE PopCount(_, _)
\* The number of set bits of n among the bits 0 .. width - 1.
PopCount(n, width) ==
    IF width = 0 THEN 0 ELSE Bit(n, width - 1) + PopCount(n, width - 1)

RECURSIVE LenProduct(_)
\* The product of the lengths of the lists of a sequence of lists.
LenProduct(lists) ==
    IF Len(lists) = 0 THEN 1 ELSE Len(lists[1]) * LenProduct(Tail(lists))

-----------------------------------------------------------------------------
(* Properties. *)

\* C1: after any sequence of rows aggregated by categorize_variant or
\* get_intersection, no Category that matches a listed redundant pair has a
\* non-zero count.
C1_RedundantNeverCounted ==
    LET redundant == RedundantKeys
    IN  /\ \A k \in DOMAIN cnt.result :
              k \in redundant => cnt.result[k] = 0
        /\ \A k \in DOMAIN isect.result : \A k2 \in DOMAIN isect.result[k] :
              (k \in redundant \/ k2 \in redundant) => isect.result[k][k2] = 0

\* C2: the annotation integer of every domain has the bit of the domain's
\* catch-all term set, for every row and every gene membership.
C2_CatchAllBitSet ==
    cout.pc = "annotated" =>
        /\ Bit(cout.ints.variant_type, get_idx_dict(category_domain["variant_type"])["All"]) = 1
        /\ Bit(cout.ints.conservation, get_idx_dict(category_domain["conservation"])["All"]) = 1
        /\ Bit(cout.ints.gene_list, get_idx_dict(category_domain["gene_list"])["Any"]) = 1
        /\ Bit(cout.ints.gencode, get_idx_dict(category_domain["gencode"])["Any"]) = 1
        /\ Bit(cout.ints.region, get_idx_dict(category_domain["region"])["Any"]) = 1

\* C3: categorize_variant returns, for every Category, the number of rows of
\* the table of which it is a non-redundant combination.
C3_CountIsNumberOfValidRows ==
    cnt.pc = "done" =>
        \A k \in DOMAIN cnt.result \cup UNION { ValidKeys(annotated_vcf[i]) :
                                                  i \in 1..Len(annotated_vcf) } :
            Count(cnt.result, k) =
                Cardinality({ i \in 1..Len(annotated_vcf) : k \in ValidKeys(annotated_vcf[i]) })

Permuted(table, p) == [i \in 1..Len(table) |-> table[p[i]]]

\* C5: categorize_variant returns the same mapping for every permutation of
\* the rows of the table.
C5_OrderIndependent ==
    cnt.pc = "done" =>
        \A p \in Permutations(1..Len(annotated_vcf)) :
            categorize_variant(Permuted(annotated_vcf, p)) = cnt.result

\* C5 witness: a table of at least two rows, the first two different with
\* different counts, has been aggregated.
C5_Witness ==
    /\ cnt.pc = "done"
    /\ Len(annotated_vcf) >= 2
    /\ categorize_variant(<<annotated_vcf[1]>>) # categorize_variant(<<annotated_vcf[2]>>)

C7_CooccurrenceOfValidCombinations ==
    isect.pc = "done" =>
        LET keys == DOMAIN isect.result
                       \cup UNION { DOMAIN isect.result[k] : k \in DOMAIN isect.result }
        IN  \A k1 \in keys, k2 \in keys :
                Count2(isect.result, k1, k2) =
                    Cardinality({ i \in 1..Len(annotated_vcf) :
                                    /\ k1 \in ValidKeys(annotated_vcf[i])
                                    /\ k2 \in ValidKeys(annotated_vcf[i]) })

\* C8: the variant_type terms of a row are exactly All and SNV when REF and
\* ALT both have length 1, and exactly All and Indel otherwise.
C8_VariantTypeTerms ==
    cout.pc \in {"yielded", "combined"} =>
        /\ Len(cout.lists[1]) = 2
        /\ Range(cout.lists[1]) =
              IF Len(cv.REF) = 1 /\ Len(cv.ALT) = 1 THEN {"All", "SNV"}
              ELSE {"All", "Indel"}

\* C8 witness: a row with a single-base REF and a longer ALT was classified.
C8_Witness ==
    /\ cout.pc = "yielded"
    /\ Len(cv.REF) = 1
    /\ Len(cv.ALT) = 2
    /\ cout.lists[1] = <<"All", "Indel">>

\* The gene the claims attribute a row to.
ActingGene(v) ==
    IF IsSubstring("downstream_gene_variant", v.Consequence)
          \/ IsSubstring("intergenic_variant", v.Consequence)
    THEN v.NEAREST ELSE v.SYMBOL

\* The gene lists the index gives for a gene, none for a gene it does not hold.
Memberships(gene) == IF gene \in DOMAIN gene_matrix THEN gene_matrix[gene] ELSE {}

\* C9: the gene_list terms of a row are exactly Any and the gene_list terms
\* the acting gene belongs to.
C9_GeneListTerms ==
    cout.pc \in {"yielded", "combined"} =>
        Range(cout.lists[2]) =
            {"Any"} \cup (Range(category_domain["gene_list"]) \cap Memberships(ActingGene(cv)))

\* The loss-of-function condition of the claims on a row.
LoFCondition(v) ==
    /\ v.LoF = "HC"
    /\ v.LoF_flags \in {"SINGLE_EXON", ""}
    /\ \/ IsSubstring("stop_gained", v.Consequence)
       \/ IsSubstring("splice_donor", v.Consequence)
       \/ IsSubstring("splice_acceptor", v.Consequence)
       \/ IsSubstring("frameshift_variant", v.Consequence)

\* C10: for a row of a protein-coding gene, LoFRegion is set exactly under
\* the loss-of-function condition, FrameshiftRegion exactly when in addition
\* the consequence has frameshift_variant and none of stop_gained,
\* splice_donor, splice_acceptor; a high-confidence frameshift_variant with
\* an empty flag yields exactly Any, CodingRegion, LoFRegion, FrameshiftRegion.
C10_LoFRegion ==
    (cout.pc \in {"yielded", "combined"}
        /\ "ProteinCoding" \in Memberships(ActingGene(cv))) =>
        LET terms == Range(cout.lists[4])
            only_frameshift ==
                /\ IsSubstring("frameshift_variant", cv.Consequence)
                /\ ~IsSubstring("stop_gained", cv.Consequence)
                /\ ~IsSubstring("splice_donor", cv.Consequence)
                /\ ~IsSubstring("splice_acceptor", cv.Consequence)
        IN  /\ "LoFRegion" \in terms <=> LoFCondition(cv)
            /\ "FrameshiftRegion" \in terms <=> (LoFCondition(cv) /\ only_frameshift)
            /\ (cv.Consequence = "frameshift_variant" /\ cv.LoF = "HC" /\ cv.LoF_flags = "")
                  => terms = {"Any", "CodingRegion", "LoFRegion", "FrameshiftRegion"}

\* C10 witness: a single-exon high-confidence frameshift in a protein-coding
\* gene was classified, with FrameshiftRegion among its terms.
C10_Witness ==
    /\ cout.pc = "yielded"
    /\ "ProteinCoding" \in Memberships(ActingGene(cv))
    /\ IsSubstring("frameshift_variant", cv.Consequence)
    /\ cv.LoF = "HC"
    /\ cv.LoF_flags = "SINGLE_EXON"
    /\ "FrameshiftRegion" \in Range(cout.lists[4])

\* The row is of a protein-coding gene, has a keyword of the missense rule
\* and meets neither loss-of-function rule before it.
MissenseRuleApplies(v) ==
    /\ "ProteinCoding" \in Memberships(ActingGene(v))
    /\ ~LoFCondition(v)
    /\ \/ IsSubstring("missense_variant", v.Consequence)
       \/ IsSubstring("protein_altering_variant", v.Consequence)
       \/ IsSubstring("start_lost", v.Consequence)
       \/ IsSubstring("stop_lost", v.Consequence)

\* The score is present, is not "NA" and reads as a number of at least 2.
ScoreAtLeastTwo(v) ==
    v.MPC # "" /\ v.MPC # "NA" /\ FloatParses(v.MPC) /\ FloatGE(v.MPC, 2)

\* C11: every row to which the missense rule applies is classified, its
\* gencode terms have MissenseRegion, and have DamagingMissenseRegion exactly
\* when the score is present, not "NA" and at least 2; REF A, ALT T,
\* missense_variant with score 2.5 yields variant_type {All, SNV} and gencode
\* {Any, CodingRegion, MissenseRegion, DamagingMissenseRegion}.
C11_MissenseRegion ==
    (cout.pc # "start" /\ MissenseRuleApplies(cv)) =>
        /\ cout.pc # "raised"
        /\ cout.pc \in {"yielded", "combined"} =>
              LET terms == Range(cout.lists[4])
              IN  /\ "MissenseRegion" \in terms
                  /\ "DamagingMissenseRegion" \in terms <=> ScoreAtLeastTwo(cv)
                  /\ (cv.REF = "A" /\ cv.ALT = "T" /\ cv.MPC = "2.5"
                        /\ cv.Consequence = "missense_variant")
                        => /\ Range(cout.lists[1]) = {"All", "SNV"}
                           /\ terms = {"Any", "CodingRegion", "MissenseRegion",
                                       "DamagingMissenseRegion"}

\* The score is missing or malformed: empty, "NA", or no numeral.
ScoreMissingOrMalformed(v) == v.MPC = "" \/ v.MPC = "NA" \/ ~FloatParses(v.MPC)

\* The row with its score emptied.
WithEmptyScore(v) == [v EXCEPT !.MPC = ""]

\* C12: a row to which the missense rule applies and whose score is missing
\* or malformed is classified without failure; it has MissenseRegion, has no
\* DamagingMissenseRegion, and its five term lists are those of the same row
\* with an empty score.
C12_MalformedScoreTolerated ==
    (cout.pc # "start" /\ MissenseRuleApplies(cv) /\ ScoreMissingOrMalformed(cv)) =>
        /\ cout.pc # "raised"
        /\ cout.pc \in {"yielded", "combined"} =>
              /\ "MissenseRegion" \in Range(cout.lists[4])
              /\ "DamagingMissenseRegion" \notin Range(cout.lists[4])
              /\ cout.lists = annotation_term_lists(WithEmptyScore(cv))

\* The catch-all and the terms of a domain whose indicator column is not 0.
TruthyTerms(domain, catchall, v) ==
    {catchall} \cup { t \in Range(category_domain[domain]) \ {catchall} : v.ind[t] # 0 }

\* C13: the conservation terms and the region terms of every classified row
\* are exactly the catch-all plus the terms whose indicator column is
\* non-zero, each term on its own.
C13_IndicatorTerms ==
    cout.pc \in {"yielded", "combined"} =>
        /\ Range(cout.lists[3]) = TruthyTerms("conservation", "All", cv)
        /\ Range(cout.lists[5]) = TruthyTerms("region", "Any", cv)

\* The keys of the combinations over the whole registry that pair the
\* variant_type term with the gencode term.
PairKeys(variant_type, gencode) ==
    LET all == product(domain_term_lists)
    IN  { join("_", all[k]) :
             k \in { j \in 1..Len(all) :
                        all[j][1] = variant_type /\ all[j][4] = gencode } }

\* The Indel frameshift row of the claim: REF AT, ALT A, frameshift_variant,
\* LoF HC, empty flag, protein-coding gene.
IsIndelFrameshift(v) ==
    /\ v.REF = "AT" /\ v.ALT = "A"
    /\ v.Consequence = "frameshift_variant"
    /\ v.LoF = "HC" /\ v.LoF_flags = ""
    /\ "ProteinCoding" \in Memberships(ActingGene(v))

\* C14: the default redundant pairs list (SNV, FrameshiftRegion) and do not
\* list (Indel, FrameshiftRegion); the combinations of an Indel frameshift
\* row that pair Indel with FrameshiftRegion are counted, and no counted
\* Category of any table pairs SNV with FrameshiftRegion.
C14_SnvFrameshiftNeverCounted ==
    /\ <<"SNV", "FrameshiftRegion">>
          \in settings.redundant_domain_pairs.variant_type_gencode
    /\ <<"Indel", "FrameshiftRegion">>
          \notin settings.redundant_domain_pairs.variant_type_gencode
    /\ cnt.pc = "done" =>
          \A i \in 1..Len(annotated_vcf) :
             IsIndelFrameshift(annotated_vcf[i]) =>
                \E k \in PairKeys("Indel", "FrameshiftRegion") :
                   Count(cnt.result, k) > 0
    /\ \A k \in PairKeys("SNV", "FrameshiftRegion") : Count(cnt.result, k) = 0

\* C15: a Categorizer that was constructed has no domain with more terms
\* than an annotation integer has bits: a registry with such a domain is
\* rejected by the construction.
C15_WideDomainRejected ==
    DOMAIN category_domain # {} =>
        \A domain \in DOMAIN category_domain :
            Len(category_domain[domain]) <= AnnotationIntBits

\* C16: when the table lacks the indicator column of a conservation or
\* region term of the registry, both aggregators fail before a row is
\* yielded: they never enter their loop, no row is consumed and no count is
\* incremented.
C16_MissingColumnFailsAtStart ==
    missing_column(columns) =>
        /\ cnt.pc \in {"start", "raised"}
        /\ cnt.i = 0 /\ cnt.yields = <<>> /\ cnt.result = EmptyCounts
        /\ isect.pc \in {"start", "raised"}
        /\ isect.i = 0 /\ isect.yields = <<>> /\ isect.result = EmptyCounts

\* C16 witness: a table of two rows, none with a malformed score, that lacks
\* the column of a region term made both aggregators fail.
C16_Witness ==
    /\ "ChmE1" \notin columns
    /\ Len(annotated_vcf) = 2
    /\ ~table_raises(annotated_vcf)
    /\ cnt.pc = "raised"
    /\ isect.pc = "raised"

\* The set of combinations of a row's five term lists.
Combinations(annotation_term_lists_) == Range(product(annotation_term_lists_))

\* C17: the combinations of a row are the same in the run of
\* categorize_variant and in the run of get_intersection over the table, the
\* same as when the row is classified alone, and the same for every
\* occurrence of the row in the table: nothing is carried from one run or
\* one row to the next.
C17_Deterministic ==
    /\ cnt.pc \in {"loop", "done"} =>
          \A i \in 1..Len(annotated_vcf) :
             /\ Combinations(cnt.yields[i])
                   = Combinations(annotation_term_lists(annotated_vcf[i]))
             /\ \A j \in 1..Len(annotated_vcf) :
                   annotated_vcf[i] = annotated_vcf[j]
                      => Combinations(cnt.yields[i]) = Combinations(cnt.yields[j])
    /\ (cnt.pc \in {"loop", "done"} /\ isect.pc \in {"loop", "done"}) =>
          \A i \in 1..Len(annotated_vcf) :
             Combinations(cnt.yields[i]) = Combinations(isect.yields[i])

\* C17 witness: both aggregators finished a table that holds the same
\* variant twice, of a gene with a gene-list membership.
C17_Witness ==
    /\ cnt.pc = "done"
    /\ isect.pc = "done"
    /\ Len(annotated_vcf) = 2
    /\ annotated_vcf[1] = annotated_vcf[2]
    /\ Memberships(ActingGene(annotated_vcf[1])) # {}
    /\ Len(cnt.yields[2][2]) >= 2

\* C18: the registry and the gene matrix of the Categorizer are, at every
\* point of categorize_variant and get_intersection over any table, what
\* they were at construction; the module-level defaults and redundant pairs
\* of settings are what they were at import, whatever a caller did to a value
\* it was handed; and a value just handed out equals the defaults.
C18_NothingMutated ==
    /\ category_domain = ExtendedDomains
    /\ gene_matrix = GeneMatrix
    /\ settings = ModuleSettings
    /\ (handed.kind = "domains" /\ handed.fresh)
          => handed.value = DefaultDomains
    /\ (handed.kind = "pairs" /\ handed.fresh)
          => /\ handed.value.variant_type_gencode = RedundantVariantTypeGencode
             /\ handed.value.gene_list_gencode = RedundantGeneListGencode

\* C18 witness: both aggregators finished a table with a row whose gene has
\* no entry in the gene matrix, and the defaults were handed out again after
\* a caller had changed the dictionary it was handed before.
C18_Witness ==
    /\ cnt.pc = "done"
    /\ isect.pc = "done"
    /\ \E i \in 1..Len(annotated_vcf) :
          resolved_gene(annotated_vcf[i]) \notin DOMAIN GeneMatrix
    /\ handed.kind = "domains"
    /\ handed.fresh
    /\ handed.mutated_before

\* The Category keys of a row classified alone.
RowKeys(v) == Range(combination_keys(annotation_term_lists(v)))

\* The number of rows among the first n of the table that have the key.
RowsWithKey(table, n, key) ==
    Cardinality({ i \in 1..n : key \in RowKeys(table[i]) })

\* What categorize_variant holds after the first cnt.i rows: for every key the
\* number of those rows that have it, which is what categorize_variant
\* returns for the table of those rows alone.
C19_PrefixSum ==
    cnt.pc \in {"loop", "done"} =>
        /\ cnt.i \in 0..Len(annotated_vcf)
        /\ \A key \in DOMAIN cnt.result :
              /\ cnt.result[key] > 0
              /\ cnt.result[key] = RowsWithKey(annotated_vcf, cnt.i, key)
        /\ \A i \in 1..cnt.i : RowKeys(annotated_vcf[i]) \subseteq DOMAIN cnt.result
        /\ cnt.result = categorize_variant(SubSeq(annotated_vcf, 1, cnt.i))

\* A step of categorize_variant that changes the counts consumes the one row
\* after the rows consumed so far, and lowers or removes no count; no step
\* goes back to a row.
C19_StepGrows ==
    /\ cnt'.i \in {cnt.i, cnt.i + 1}
    /\ cnt'.result # cnt.result => cnt'.i = cnt.i + 1
    /\ \A key \in DOMAIN cnt.result :
          key \in DOMAIN cnt'.result /\ cnt'.result[key] >= cnt.result[key]

\* C19: during a pass of categorize_variant the counts only grow, every step
\* adds exactly the next row that was not aggregated yet, and after any
\* number k of rows the counts are those of the first k rows alone.
C19_OnlyGrows == [] C19_PrefixSum /\ [][C19_StepGrows]_vars

\* C19 witness: the pass stands between the two rows of a table, with the
\* first row counted.
C19_Witness ==
    /\ cnt.pc = "loop"
    /\ cnt.i = 1
    /\ Len(annotated_vcf) = 2
    /\ cnt.result # EmptyCounts
    /\ annotated_vcf[1] = annotated_vcf[2]

\* C20: for every cut of the table into row ranges, every interleaving of
\* the workers and every order of merging, the key-wise sum of the workers'
\* count maps is what categorize_variant returns for the whole table.
C20_MergedEqualsWhole ==
    par.merged = WorkerIds => par.total = categorize_variant(annotated_vcf)

\* C20 witness: two workers counted one row each of a table that holds the
\* same row twice, the third had an empty range, and all three were merged.
C20_Witness ==
    /\ par.merged = WorkerIds
    /\ Len(annotated_vcf) = 2
    /\ annotated_vcf[1] = annotated_vcf[2]
    /\ par.cuts = <<1, 2>>
    /\ \E key \in DOMAIN par.total : par.total[key] = 2

\* The terms of a domain whose bit is set in the row's annotation integer of
\* the domain.
CarriedTerms(v, domain) ==
    { category_domain[domain][k] :
         k \in { j \in 1..Len(category_domain[domain]) :
                    Bit(annotation_ints(v)[domain], j - 1) = 1 } }

\* The keys made of one carried term per domain, in the order variant_type,
\* gene_list, conservation, gencode, region, with "_" between them.
FiveTermKeys(v) ==
    { t1 \o "_" \o t2 \o "_" \o t3 \o "_" \o t4 \o "_" \o t5 :
         t1 \in CarriedTerms(v, "variant_type"),
         t2 \in CarriedTerms(v, "gene_list"),
         t3 \in CarriedTerms(v, "conservation"),
         t4 \in CarriedTerms(v, "gencode"),
         t5 \in CarriedTerms(v, "region") }

\* C21: the Category keys of both aggregators are exactly the keys made of
\* five terms, one per domain in the order variant_type, gene_list,
\* conservation, gencode, region, joined with "_", each term being a term of
\* its domain whose bit is set in the annotation integer of a row consumed.
C21_KeyOfFiveTerms ==
    /\ cnt.pc \in {"loop", "done"} =>
          DOMAIN cnt.result
             = UNION { FiveTermKeys(annotated_vcf[i]) : i \in 1..cnt.i }
    /\ isect.pc \in {"loop", "done"} =>
          LET keys == UNION { FiveTermKeys(annotated_vcf[i]) : i \in 1..isect.i }
          IN  /\ DOMAIN isect.result = keys
              /\ \A key \in keys : DOMAIN isect.result[key] \subseteq keys

\* C21 witness: both aggregators finished a table with a row of a lincRNA
\* gene, whose gene_list terms and conservation terms differ.
C21_Witness ==
    /\ cnt.pc = "done"
    /\ isect.pc = "done"
    /\ \E i \in 1..Len(annotated_vcf) :
          /\ "lincRNA" \in CarriedTerms(annotated_vcf[i], "gene_list")
          /\ CarriedTerms(annotated_vcf[i], "conservation") = {"All"}
    /\ "All_lincRNA_All_Any_Any" \in DOMAIN cnt.result

\* The consequence has one of the keywords.
HasAny(v, keywords) == \E k \in keywords : IsSubstring(k, v.Consequence)

\* The row's gene is protein-coding in the gene matrix.
IsProteinCoding(v) == "ProteinCoding" \in Memberships(ActingGene(v))

\* One of the five coding rules matches the row.
CodingRuleMatches(v) ==
    \/ LoFCondition(v)
    \/ HasAny(v, {"missense_variant", "protein_altering_variant", "start_lost",
                  "stop_lost", "inframe_deletion", "inframe_insertion",
                  "synonymous_variant"})

\* The keywords that keep a row of a protein-coding gene coding when no
\* coding rule matches.
KeepCodingKeywords ==
    {"stop_retained_variant", "incomplete_terminal_codon_variant",
     "protein_altering_variant", "coding_sequence_variant", "stop_gained",
     "splice_donor", "splice_acceptor", "frameshift_variant"}

\* The row of a protein-coding gene is reclassified as non-coding.
IsReclassified(v) ==
    IsProteinCoding(v) /\ ~CodingRuleMatches(v) /\ ~HasAny(v, KeepCodingKeywords)

\* The row ends up non-coding.
EndsUpNoncoding(v) == ~IsProteinCoding(v) \/ IsReclassified(v)

CodingSubRegions ==
    {"LoFRegion", "FrameshiftRegion", "MissenseRegion", "DamagingMissenseRegion",
     "InFrameRegion", "SilentRegion"}

NoncodingSubRegions ==
    {"UTRsRegion", "PromoterRegion", "IntronRegion", "SpliceSiteNoncanonRegion",
     "IntergenicRegion", "lincRnaRegion", "OtherTranscriptRegion"}

\* The gencode terms yielded for the row that was classified.
GencodeTerms == Range(cout.lists[4])

\* C22: the gencode terms of every row that ends up non-coding have
\* NoncodingRegion and exactly one of the seven non-coding sub-regions.
C22_OneNoncodingSubRegion ==
    (cout.pc \in {"yielded", "combined"} /\ EndsUpNoncoding(cv)) =>
        /\ "NoncodingRegion" \in GencodeTerms
        /\ Cardinality(GencodeTerms \cap NoncodingSubRegions) = 1

\* The loss-of-function call of the row is high-confidence with an empty or
\* single-exon flag.
HasLoFEvidence(v) == v.LoF = "HC" /\ v.LoF_flags \in {"SINGLE_EXON", ""}

\* The number of the first coding rule that matches the row, in the order
\* LoF, LoF with frameshift, missense, in-frame, synonymous; 0 when none does.
FirstCodingRule(v) ==
    IF HasLoFEvidence(v)
          /\ HasAny(v, {"stop_gained", "splice_donor", "splice_acceptor"}) THEN 1
    ELSE IF HasLoFEvidence(v) /\ HasAny(v, {"frameshift_variant"}) THEN 2
    ELSE IF HasAny(v, {"missense_variant", "protein_altering_variant",
                       "start_lost", "stop_lost"}) THEN 3
    ELSE IF HasAny(v, {"inframe_deletion", "inframe_insertion"}) THEN 4
    ELSE IF HasAny(v, {"synonymous_variant"}) THEN 5
    ELSE 0

\* The coding sub-regions a rule may set, and those it always sets.
RuleMay ==
    << {"LoFRegion"}, {"LoFRegion", "FrameshiftRegion"},
       {"MissenseRegion", "DamagingMissenseRegion"}, {"InFrameRegion"},
       {"SilentRegion"} >>

RuleMust ==
    << {"LoFRegion"}, {"LoFRegion", "FrameshiftRegion"}, {"MissenseRegion"},
       {"InFrameRegion"}, {"SilentRegion"} >>

\* C23: the coding sub-regions among the gencode terms of a row of a
\* protein-coding gene are those of the first coding rule that matches, in
\* the order LoF, LoF with frameshift, missense, in-frame, synonymous, and
\* none when no rule matches; stop_gained with frameshift_variant and a
\* high-confidence call yields LoFRegion without FrameshiftRegion, and
\* missense_variant with synonymous_variant MissenseRegion without
\* SilentRegion.
C23_FirstRuleWins ==
    (cout.pc \in {"yielded", "combined"} /\ IsProteinCoding(cv)) =>
        LET rule == FirstCodingRule(cv)
            set == GencodeTerms \cap CodingSubRegions
        IN  /\ rule = 0 => set = {}
            /\ rule # 0 => RuleMust[rule] \subseteq set /\ set \subseteq RuleMay[rule]
            /\ (HasLoFEvidence(cv)
                  /\ IsSubstring("stop_gained", cv.Consequence)
                  /\ IsSubstring("frameshift_variant", cv.Consequence))
                  => set = {"LoFRegion"}
            /\ (IsSubstring("missense_variant", cv.Consequence)
                  /\ IsSubstring("synonymous_variant", cv.Consequence)
                  /\ ~LoFCondition(cv))
                  => "MissenseRegion" \in set /\ "SilentRegion" \notin set

\* C23 witness: a high-confidence row of a protein-coding gene whose
\* consequence has stop_gained and frameshift_variant was classified.
C23_Witness ==
    /\ cout.pc = "yielded"
    /\ IsProteinCoding(cv)
    /\ HasLoFEvidence(cv)
    /\ IsSubstring("stop_gained", cv.Consequence)
    /\ IsSubstring("frameshift_variant", cv.Consequence)
    /\ "LoFRegion" \in GencodeTerms
    /\ "FrameshiftRegion" \notin GencodeTerms

\* C24: a row of a protein-coding gene that no coding rule matches has, when
\* its consequence has none of the keywords that keep it coding,
\* NoncodingRegion and neither CodingRegion nor a coding sub-region, and
\* otherwise exactly the gencode terms Any and CodingRegion.
C24_Reclassification ==
    (cout.pc \in {"yielded", "combined"} /\ IsProteinCoding(cv)
        /\ ~CodingRuleMatches(cv)) =>
        IF HasAny(cv, KeepCodingKeywords)
        THEN GencodeTerms = {"Any", "CodingRegion"}
        ELSE /\ "NoncodingRegion" \in GencodeTerms
             /\ "CodingRegion" \notin GencodeTerms
             /\ GencodeTerms \cap CodingSubRegions = {}

\* C24 witness: stop_gained with a loss-of-function call other than HC, in a
\* protein-coding gene, was classified as Any and CodingRegion alone.
C24_Witness ==
    /\ cout.pc = "yielded"
    /\ IsProteinCoding(cv)
    /\ cv.Consequence = "stop_gained"
    /\ cv.LoF = "LC"
    /\ GencodeTerms = {"Any", "CodingRegion"}

\* The non-coding sub-region of the first keyword test that the consequence
\* passes, in the order UTR, upstream, intron, splice region, downstream or
\* intergenic; "" when it passes none.
FirstNoncodingKeyword(v) ==
    IF IsSubstring("_UTR_", v.Consequence) THEN "UTRsRegion"
    ELSE IF IsSubstring("upstream_gene_variant", v.Consequence) THEN "PromoterRegion"
    ELSE IF IsSubstring("intron_variant", v.Consequence) THEN "IntronRegion"
    ELSE IF IsSubstring("splice_region_variant", v.Consequence)
         THEN "SpliceSiteNoncanonRegion"
    ELSE IF HasAny(v, {"downstream_gene_variant", "intergenic_variant"})
         THEN "IntergenicRegion"
    ELSE ""

\* C25: the non-coding sub-region of a row that ends up non-coding is that of
\* the first keyword test its consequence passes; when it passes none and the
\* gene is not protein-coding, it is lincRnaRegion for a lincRNA gene and
\* OtherTranscriptRegion otherwise; intron_variant on a gene that is neither
\* protein-coding nor lincRNA yields exactly Any, NoncodingRegion,
\* IntronRegion.
C25_NoncodingFirstMatch ==
    (cout.pc \in {"yielded", "combined"} /\ EndsUpNoncoding(cv)) =>
        LET first == FirstNoncodingKeyword(cv)
            set == GencodeTerms \cap NoncodingSubRegions
        IN  /\ first # "" => set = {first}
            /\ (first = "" /\ ~IsProteinCoding(cv)) =>
                  set = IF "lincRNA" \in Memberships(ActingGene(cv))
                        THEN {"lincRnaRegion"} ELSE {"OtherTranscriptRegion"}
            /\ (cv.Consequence = "intron_variant" /\ ~IsProteinCoding(cv)
                  /\ "lincRNA" \notin Memberships(ActingGene(cv)))
                  => GencodeTerms = {"Any", "NoncodingRegion", "IntronRegion"}

\* C25 witness: a row of a lincRNA gene whose consequence has both a UTR and
\* an intron keyword was classified as UTRsRegion.
C25_Witness ==
    /\ cout.pc = "yielded"
    /\ "lincRNA" \in Memberships(ActingGene(cv))
    /\ IsSubstring("_UTR_", cv.Consequence)
    /\ IsSubstring("intron_variant", cv.Consequence)
    /\ GencodeTerms = {"Any", "NoncodingRegion", "UTRsRegion"}

\* The annotation integer is a bit mask of the domain's terms: it is below
\* 2 ** (number of terms), and each set bit is the bit of a term the row
\* carries.
IsBitmaskOf(annotation_int, domain, carried) ==
    /\ annotation_int >= 0
    /\ annotation_int < Pow2(Len(category_domain[domain]))
    /\ \A i \in 1..Len(category_domain[domain]) :
          Bit(annotation_int, i - 1) = 1 => category_domain[domain][i] \in carried

\* C26: each of the five annotation integers of a row is a bit mask of its
\* domain; the set bits of the conservation and region integers are those of
\* the catch-all and of terms with a non-zero indicator, those of the
\* gene_list integer those of the catch-all and of the gene's memberships.
C26_ValidBitmasks ==
    cout.pc = "annotated" =>
        /\ IsBitmaskOf(cout.ints.variant_type, "variant_type",
                       Range(category_domain["variant_type"]))
        /\ IsBitmaskOf(cout.ints.gencode, "gencode", Range(category_domain["gencode"]))
        /\ IsBitmaskOf(cout.ints.conservation, "conservation",
                       TruthyTerms("conservation", "All", cv))
        /\ IsBitmaskOf(cout.ints.region, "region", TruthyTerms("region", "Any", cv))
        /\ IsBitmaskOf(cout.ints.gene_list, "gene_list",
                       {"Any"} \cup Memberships(ActingGene(cv)))

\* C27: the gencode terms of every classified row have exactly one of
\* CodingRegion and NoncodingRegion: CodingRegion for a row of a
\* protein-coding gene that is not reclassified, NoncodingRegion otherwise.
C27_CodingXorNoncoding ==
    cout.pc \in {"yielded", "combined"} =>
        /\ Cardinality(GencodeTerms \cap {"CodingRegion", "NoncodingRegion"}) = 1
        /\ "NoncodingRegion" \in GencodeTerms <=> EndsUpNoncoding(cv)

\* C27 witness: a reclassified row of a protein-coding gene was classified
\* as NoncodingRegion without CodingRegion.
C27_Witness ==
    /\ cout.pc = "yielded"
    /\ IsReclassified(cv)
    /\ "NoncodingRegion" \in GencodeTerms
    /\ "CodingRegion" \notin GencodeTerms

\* C28: in the gencode terms of every classified row FrameshiftRegion comes
\* with LoFRegion, DamagingMissenseRegion with MissenseRegion, every coding
\* sub-region with CodingRegion and a protein-coding gene, and every
\* non-coding sub-region with NoncodingRegion.
C28_SubRegionImpliesParent ==
    cout.pc \in {"yielded", "combined"} =>
        /\ "FrameshiftRegion" \in GencodeTerms => "LoFRegion" \in GencodeTerms
        /\ "DamagingMissenseRegion" \in GencodeTerms => "MissenseRegion" \in GencodeTerms
        /\ GencodeTerms \cap CodingSubRegions # {} =>
              "CodingRegion" \in GencodeTerms /\ IsProteinCoding(cv)
        /\ GencodeTerms \cap NoncodingSubRegions # {} =>
              "NoncodingRegion" \in GencodeTerms

\* C28 witness: a damaging missense row was classified, with
\* DamagingMissenseRegion, MissenseRegion and CodingRegion.
C28_Witness ==
    /\ cout.pc = "yielded"
    /\ {"DamagingMissenseRegion", "MissenseRegion", "CodingRegion"}
          \subseteq GencodeTerms
    /\ IsProteinCoding(cv)

-----------------------------------------------------------------------------
(* The aggregation under registries whose conservation and gene_list terms   *)
(* are externally supplied names with the separator "_" in them.             *)

\* The registries: in the first the gene lists are "ASD" and "ASD_TADA" and
\* the conservation scores "phyloP" and "TADA_phyloP"; the second has one
\* gene list and one score.
KeyDomains ==
    { [ExtendedDomains EXCEPT
          !.gene_list    = <<"Any", "ASD", "ASD_TADA">>,
          !.conservation = <<"All", "phyloP", "TADA_phyloP">>],
      [ExtendedDomains EXCEPT
          !.gene_list    = <<"Any", "ASD_TADA">>,
          !.conservation = <<"All", "phyloP">>] }

\* The gene lists of the genes of these tables.
KeyGeneMatrix ==
    [gene \in {"CHD8", "TADA1"} |->
        CASE gene = "CHD8"  -> {"ASD", "ProteinCoding"}
          [] gene = "TADA1" -> {"ASD_TADA", "ProteinCoding"}]

\* The indicator columns of these tables.
KeyColumns == {"phyloP", "TADA_phyloP", "ChmE1"}

KeyInd(phylop, tada, chm) ==
    [c \in KeyColumns |->
        CASE c = "phyloP"      -> phylop
          [] c = "TADA_phyloP" -> tada
          [] c = "ChmE1"       -> chm]

KeyVariants ==
    { \* in "ASD", score "TADA_phyloP"
      Row("A", "T", "CHD8", "TADA1", "intron_variant", "", "", "", KeyInd(0, 1, 0)),
      \* in "ASD_TADA", score "phyloP"
      Row("A", "T", "TADA1", "CHD8", "intron_variant", "", "", "", KeyInd(1, 0, 0)),
      \* in "ASD", no score
      Row("A", "T", "CHD8", "TADA1", "intron_variant", "", "", "", KeyInd(0, 0, 0)),
      \* intergenic, nearest gene unknown, in a custom region
      Row("AT", "A", "CHD8", "RP11", "intergenic_variant", "", "", "", KeyInd(0, 0, 1)) }

InitKey ==
    /\ category_domain \in KeyDomains
    /\ gene_matrix = KeyGeneMatrix
    /\ annotated_vcf \in SeqsUpTo(KeyVariants, MaxRows)
    /\ columns = KeyColumns
    /\ cnt = [pc |-> "start", i |-> 0, result |-> EmptyCounts, yields |-> <<>>]
    /\ isect = [pc |-> "start", i |-> 0, result |-> EmptyCounts, yields |-> <<>>]
    /\ cv = NoRow
    /\ cout = [pc |-> "idle", ints |-> NoInts, lists |-> <<>>, combinations |-> <<>>]
    /\ settings = ModuleSettings
    /\ handed = NothingHanded
    /\ par = NoWorkers
    /\ dawn = NoPair

SpecKey == InitKey /\ [][Next]_vars

\* The combinations of the rows counted so far.
CountedCombinations ==
    UNION { Combinations(cnt.yields[i]) : i \in 1..cnt.i }

\* The number of the rows counted so far that carry the combination.
RowsWithCombination(combination) ==
    Cardinality({ i \in 1..cnt.i : combination \in Combinations(cnt.yields[i]) })

\* C29: two different combinations, of one row or of two, never have the same
\* Category key, and the counter of a key counts the rows of one combination.
C29_KeyInjective ==
    cnt.pc \in {"loop", "done"} =>
        LET counted == CountedCombinations
        IN  /\ \A a, b \in counted : a # b => join("_", a) # join("_", b)
            /\ \A a \in counted :
                  Count(cnt.result, join("_", a)) = RowsWithCombination(a)

-----------------------------------------------------------------------------
(* cwas/core/dawn/supernodeWGS.py: the index of the block of a pair of       *)
(* clusters.  A number is a Python value with its type: int, or the          *)
(* numpy.int64 that arithmetic on a numpy array gives.                       *)

\* The largest max_val (number of clusters) that is explored.
MaxVal == 6

PyInt(n) == [type |-> "int", value |-> n]
NpInt64(n) == [type |-> "numpy.int64", value |-> n]

RECURSIVE arange_sum(_, _)
\* sum(np.arange(start, stop, -1)): start + (start - 1) + ... down to, and
\* without, stop.
arange_sum(start, stop) ==
    IF start <= stop THEN 0 ELSE start + arange_sum(start - 1, stop)

\* _pair_to_index_ on int arguments within 1..max_val.  tmp is the sum of a
\* numpy array when i > 1, a numpy.int64, and the int 0 otherwise.
pair_to_index(idx1, idx2, max_val) ==
    LET i == IF idx1 <= idx2 THEN idx1 ELSE idx2
        j == IF idx1 <= idx2 THEN idx2 ELSE idx1
        tmp == IF i > 1
               THEN NpInt64(arange_sum(max_val, (max_val - (i - 2)) - 1))
               ELSE PyInt(0)
    IN  [type |-> tmp.type, value |-> tmp.value + (j - i + 1)]

\* The number of pairs idx1 <= idx2 of max_val clusters:
\* max_val*(max_val-1)/2+max_val.
pair_count(max_val) == (max_val * (max_val - 1)) \div 2 + max_val

\* The assert that opens _index_to_pair.
index_to_pair_accepts(val, max_val) ==
    /\ val.type = "int"
    /\ val.value > 0
    /\ val.value <= pair_count(max_val)

\* vec = [0] + list(np.cumsum(range(max_val, 0, -1))), positions from 1.
cumsum_vec(max_val) ==
    [k \in 1..(max_val + 1) |-> arange_sum(max_val, max_val - (k - 1))]

\* _index_to_pair after its assert, on the number val.
index_to_pair(val, max_val) ==
    LET vec == cumsum_vec(max_val)
        where == { k \in 0..max_val : vec[k + 1] < val }
        idx1 == (CHOOSE k \in where : \A l \in where : l <= k) + 1
        idx2 == ((val - vec[(idx1 - 1) + 1]) - 1) + idx1
    IN  <<idx1, idx2>>

\* The pairs of clusters whose block is looked up, and the numbers of clusters.
InitPair ==
    /\ category_domain = <<>>
    /\ gene_matrix = <<>>
    /\ annotated_vcf = <<>>
    /\ columns = AllColumns
    /\ cnt = [pc |-> "idle", i |-> 0, result |-> EmptyCounts, yields |-> <<>>]
    /\ isect = [pc |-> "idle", i |-> 0, result |-> EmptyCounts, yields |-> <<>>]
    /\ cv = NoRow
    /\ cout = [pc |-> "idle", ints |-> NoInts, lists |-> <<>>, combinations |-> <<>>]
    /\ settings = ModuleSettings
    /\ handed = NothingHanded
    /\ par = NoWorkers
    /\ \E max_val \in 1..MaxVal : \E idx1 \in 1..max_val, idx2 \in 1..max_val :
          dawn = [NoPair EXCEPT !.pc = "start", !.max_val = max_val,
                                !.idx1 = idx1, !.idx2 = idx2]

\* _pair_to_index_(idx1, idx2, max_val) returns.
PairToIndex ==
    /\ dawn.pc = "start"
    /\ dawn' = [dawn EXCEPT
                  !.pc = "indexed",
                  !.index = pair_to_index(dawn.idx1, dawn.idx2, dawn.max_val)]
    /\ UNCHANGED <<category_domain, gene_matrix, annotated_vcf, cnt, isect, cv,
                   cout, columns, settings, handed, par>>

\* _index_to_pair is called on what _pair_to_index_ returned: its assert
\* passes and the pair is returned, or AssertionError is raised.
IndexToPair ==
    /\ dawn.pc = "indexed"
    /\ dawn' = IF index_to_pair_accepts(dawn.index, dawn.max_val)
               THEN [dawn EXCEPT
                       !.pc = "done",
                       !.pair = index_to_pair(dawn.index.value, dawn.max_val)]
               ELSE [dawn EXCEPT !.pc = "raised"]
    /\ UNCHANGED <<category_domain, gene_matrix, annotated_vcf, cnt, isect, cv,
                   cout, columns, settings, handed, par>>

\* corr_mat_blocks(i): _index_to_pair is called on an int the caller chose.
CorrMatBlocks ==
    /\ dawn.pc = "start"
    /\ \E val \in 0..(pair_count(dawn.max_val) + 1) :
          dawn' = IF index_to_pair_accepts(PyInt(val), dawn.max_val)
                  THEN [dawn EXCEPT
                          !.pc = "block", !.index = PyInt(val),
                          !.pair = index_to_pair(val, dawn.max_val)]
                  ELSE [dawn EXCEPT !.pc = "raised", !.index = PyInt(val)]
    /\ UNCHANGED <<category_domain, gene_matrix, annotated_vcf, cnt, isect, cv,
                   cout, columns, settings, handed, par>>

NextPair ==
    \/ PairToIndex
    \/ IndexToPair
    \/ CorrMatBlocks

SpecPair == InitPair /\ [][NextPair]_vars

\* The pairs idx1 <= idx2 of max_val clusters.
OrderedPairs(max_val) ==
    { p \in (1..max_val) \X (1..max_val) : p[1] <= p[2] }

\* The pair idx1, idx2 with the smaller cluster first.
Ordered(idx1, idx2) == IF idx1 <= idx2 THEN <<idx1, idx2>> ELSE <<idx2, idx1>>

\* C30: _index_to_pair gives back the pair whose index _pair_to_index_ gave;
\* the index is the same for the two orders of the pair; and the indices of
\* the pairs idx1 <= idx2 are the numbers 1 .. max_val*(max_val+1)/2, each
\* of one pair, all accepted by the assert of _index_to_pair.
C30_PairIndexBijection ==
    /\ dawn.pc = "indexed" =>
          /\ index_to_pair_accepts(dawn.index, dawn.max_val)
          /\ index_to_pair(dawn.index.value, dawn.max_val)
                = Ordered(dawn.idx1, dawn.idx2)
          /\ dawn.index = pair_to_index(dawn.idx2, dawn.idx1, dawn.max_val)
          /\ { pair_to_index(p[1], p[2], dawn.max_val).value :
                  p \in OrderedPairs(dawn.max_val) }
                = 1..((dawn.max_val * (dawn.max_val + 1)) \div 2)
          /\ \A p, q \in OrderedPairs(dawn.max_val) :
                pair_to_index(p[1], p[2], dawn.max_val).value
                   = pair_to_index(q[1], q[2], dawn.max_val).value => p = q
    /\ dawn.pc = "done" => dawn.pair = Ordered(dawn.idx1, dawn.idx2)

=============================================================================
